---- MODULE Spec2Model ----
(***************************************************************************)
(* Model of the n8n-agente browser client: the connection-validation and   *)
(* workflow-submission client (services/n8nApiService.ts), the assistant   *)
(* call (services/geminiService.ts) and the UI handlers that drive them    *)
(* (App.tsx, LoginScreen, SettingsModal, ChatInterface, WorkflowPreview).  *)
(*                                                                         *)
(* JavaScript strings are sequences of text chunks, so that trim,          *)
(* startsWith, includes and the /\/$/ replacement are computed and not     *)
(* assumed.  Other JavaScript values are tagged records [t |-> ...].       *)
(***************************************************************************)
EXTENDS Integers, Sequences, FiniteSets, TLC

\* ------------------------------------------------------------------ bounds
\* Calls (validation, submission, assistant) made in one run of the model.
MaxCalls == 3
\* Chat messages kept in the transcript.
MaxMessages == 4

\* ------------------------------------------------------- JavaScript values
Undefined == [t |-> "undefined"]
Null == [t |-> "null"]
Str(s) == [t |-> "string", v |-> s]
Bool(b) == [t |-> "boolean", v |-> b]
Num(n) == [t |-> "number", v |-> n]
Obj(fields) == [t |-> "object", f |-> fields]
Arr(items) == [t |-> "array", v |-> items]
\* new Error(message)
Err(m) == [t |-> "Error", message |-> m]

EmptyFields == [k \in {} |-> Undefined]

\* obj.key of an object value
Get(o, k) == IF o.t = "object" /\ k \in DOMAIN o.f THEN o.f[k] ELSE Undefined

\* ToBoolean: what if (v), !v and v || d test.
Truthy(v) ==
  CASE v.t = "undefined" -> FALSE
    [] v.t = "null" -> FALSE
    [] v.t = "boolean" -> v.v
    [] v.t = "string" -> v.v /= <<>>
    [] OTHER -> TRUE

IsSpace(c) == c \in {" ", "\n"}

RECURSIVE TrimStart(_)
TrimStart(s) == IF s /= <<>> /\ IsSpace(Head(s)) THEN TrimStart(Tail(s)) ELSE s

RECURSIVE TrimEnd(_)
TrimEnd(s) ==
  IF s /= <<>> /\ IsSpace(s[Len(s)]) THEN TrimEnd(SubSeq(s, 1, Len(s) - 1)) ELSE s

\* a string of one chunk; the empty string has no chunk
Text(chunk) == IF chunk = "" THEN <<>> ELSE <<chunk>>

\* String.prototype.trim
Trim(s) == TrimEnd(TrimStart(s))

\* String.prototype.includes, for a needle that is one chunk
Includes(s, needle) == \E i \in 1..Len(s) : s[i] = needle

\* s.replace(/\/$/, ""): drops one trailing slash
StripSlash(s) ==
  IF s /= <<>> /\ s[Len(s)] = "/" THEN SubSeq(s, 1, Len(s) - 1) ELSE s

\* ------------------------------------------------------ the network's answers
StatusText(status) ==
  CASE status = 200 -> "OK"
    [] status = 201 -> "Created"
    [] status = 401 -> "Unauthorized"
    [] status = 403 -> "Forbidden"
    [] status = 404 -> "Not Found"
    [] status = 429 -> "Too Many Requests"
    [] OTHER -> ""

\* 500 stands for a response without a reason phrase (HTTP/2)
Statuses == {200, 201, 401, 403, 404, 429, 500}

JsonType == Str(<<"application/json">>)
JsonCharsetType == Str(<<"application/json", "; charset=utf-8">>)
HtmlType == Str(<<"text/html", "; charset=utf-8">>)
\* response.headers.get("content-type"): null when the header is absent
ContentTypes == {Null, JsonType, JsonCharsetType, HtmlType}

\* What a rejected call can throw: Error objects with a message, a value with
\* no message property (a thrown string or plain object), or null/undefined.
NoMessageValue == [t |-> "nomsg"]
NullishValue == [t |-> "nullish"]
FailedToFetch == Err(<<"Failed to fetch">>)
ThrownValues ==
  { FailedToFetch,
    Err(<<"NetworkError", " when attempting to fetch resource.">>),
    Err(<<"Load failed">>),
    Err(<<>>),
    NoMessageValue,
    NullishValue }

\* Response.ok: the status is in the range 200-299
ResponseOk(r) == r.status >= 200 /\ r.status <= 299

Response(status, ct, body) ==
  [t |-> "response", status |-> status, statusText |-> StatusText(status),
   contentType |-> ct, body |-> body]

Rejection(thrown) == [t |-> "rejection", thrown |-> thrown]

\* Every way the single GET of a validation can end.
ValidateEndings ==
  { Response(s, ct, "") : s \in Statuses, ct \in ContentTypes }
    \cup { Rejection(x) : x \in ThrownValues }

\* ------------------------------------------------------- promise outcomes
Fulfilled(v) == [state |-> "fulfilled", value |-> v]
Rejected(e) == [state |-> "rejected", reason |-> e]

TypeErrorValue == Err(<<"Cannot read properties of undefined">>)

\* (error as Error).message
MessageOf(thrown) ==
  CASE thrown.t = "Error" -> Str(thrown.message)
    [] thrown.t = "nomsg" -> Undefined
    [] OTHER -> [t |-> "throws"]

\* -------------------------------------------- validateN8nConnection
InvalidKeyText == <<"Chave API invalida (Erro 401/403).">>
NotJsonText == <<"A URL informada nao parece ser uma API n8n valida (nao retornou JSON).">>
CorsText == <<"Bloqueio de CORS ou Erro de Rede.">>
ServerErrorPrefix == "Erro do servidor: "
UnexpectedPrefix == "Erro inesperado: "

Failure(text) == Obj([success |-> Bool(FALSE), error |-> Str(text)])
Success == Obj([success |-> Bool(TRUE)])

\* lines 14-25: the one request a validation issues
ValidateRequest(config) ==
  [method |-> "GET",
   url |-> StripSlash(config.baseUrl) \o <<"/api/v1/workflows?limit=1">>,
   apiKey |-> config.apiKey,
   body |-> Undefined]

\* The catch block without its test for the message 'Failed to fetch'.
ValidateCatchNoFailedToFetch(thrown) ==
  LET msg == MessageOf(thrown) IN
  IF msg.t /= "string" THEN Rejected(TypeErrorValue)
  ELSE IF Includes(msg.v, "NetworkError") THEN Fulfilled(Failure(CorsText))
  ELSE Fulfilled(Failure(<<UnexpectedPrefix>> \o msg.v))

\* The catch block without its test for 'NetworkError' in the message.
ValidateCatchNoNetworkError(thrown) ==
  LET msg == MessageOf(thrown) IN
  IF msg.t /= "string" THEN Rejected(TypeErrorValue)
  ELSE IF msg.v = <<"Failed to fetch">> THEN Fulfilled(Failure(CorsText))
  ELSE Fulfilled(Failure(<<UnexpectedPrefix>> \o msg.v))

\* lines 42-54: the catch block
ValidateCatch(thrown) ==
  LET msg == MessageOf(thrown) IN
  IF msg.t = "throws" THEN Rejected(TypeErrorValue)
  ELSE IF msg.t = "string" /\ msg.v = <<"Failed to fetch">> THEN Fulfilled(Failure(CorsText))
  ELSE IF msg.t = "undefined" THEN Rejected(TypeErrorValue)
  ELSE IF Includes(msg.v, "NetworkError") THEN Fulfilled(Failure(CorsText))
  ELSE Fulfilled(Failure(<<UnexpectedPrefix>> \o msg.v))

\* The classification with the content-type test ahead of the status test.
ValidateResponseTypeFirst(r) ==
  IF ~Truthy(r.contentType) \/ ~Includes(r.contentType.v, "application/json")
    THEN Failure(NotJsonText)
  ELSE IF ~ResponseOk(r) THEN
    IF r.status = 401 \/ r.status = 403 THEN Failure(InvalidKeyText)
    ELSE Failure(<<ServerErrorPrefix, ToString(r.status), " ", r.statusText>>)
  ELSE Success

\* The classification that only asks for some content-type header.
ValidateResponseAnyType(r) ==
  IF ~ResponseOk(r) THEN
    IF r.status = 401 \/ r.status = 403 THEN Failure(InvalidKeyText)
    ELSE Failure(<<ServerErrorPrefix, ToString(r.status), " ", r.statusText>>)
  ELSE IF ~Truthy(r.contentType) THEN Failure(NotJsonText)
  ELSE Success

\* The classification that compares the whole header with 'application/json'.
ValidateResponseExactType(r) ==
  IF ~ResponseOk(r) THEN
    IF r.status = 401 \/ r.status = 403 THEN Failure(InvalidKeyText)
    ELSE Failure(<<ServerErrorPrefix, ToString(r.status), " ", r.statusText>>)
  ELSE IF ~Truthy(r.contentType) \/ r.contentType.v /= <<"application/json">>
    THEN Failure(NotJsonText)
  ELSE Success

\* The classification whose server-error message leaves out the status text.
ValidateResponseNoStatusText(r) ==
  IF ~ResponseOk(r) THEN
    IF r.status = 401 \/ r.status = 403 THEN Failure(InvalidKeyText)
    ELSE Failure(<<ServerErrorPrefix, ToString(r.status)>>)
  ELSE IF ~Truthy(r.contentType) \/ ~Includes(r.contentType.v, "application/json")
    THEN Failure(NotJsonText)
  ELSE Success

\* lines 27-41: the classification of a received response
ValidateResponse(r) ==
  IF ~ResponseOk(r) THEN
    IF r.status = 401 \/ r.status = 403 THEN Failure(InvalidKeyText)
    ELSE Failure(<<ServerErrorPrefix, ToString(r.status), " ", r.statusText>>)
  ELSE IF ~Truthy(r.contentType) \/ ~Includes(r.contentType.v, "application/json")
    THEN Failure(NotJsonText)
  ELSE Success

\* The settled promise of validateN8nConnection(config), given how its fetch ended.
validateN8nConnection(config, ending) ==
  IF ending.t = "rejection" THEN ValidateCatch(ending.thrown)
  ELSE Fulfilled(ValidateResponse(ending))

\* ------------------------------------------------------ workflow documents
NodeA ==
  [id |-> "1", name |-> "Webhook", type |-> "x.webhook", typeVersion |-> 1,
   position |-> <<0, 0>>, parameters |-> Obj(EmptyFields)]
NodeB ==
  [id |-> "2", name |-> "Set", type |-> "x.set", typeVersion |-> 1,
   position |-> <<200, 0>>, parameters |-> Obj(EmptyFields)]

ConnAB == Obj([Webhook |-> Arr(<<"Set">>)])
NoConns == Obj(EmptyFields)

MetaName == Obj([name |-> Str(<<"X">>)])
MetaSettings ==
  Obj([settings |-> Obj([saveManualExecutions |-> Bool(FALSE), callers |-> Arr(<<"c">>)]),
       active |-> Bool(TRUE)])

\* a document without meta
DocPlain == Obj([nodes |-> Arr(<<NodeA, NodeB>>), connections |-> ConnAB])
\* a document whose nodes are not in x order, with meta = {name: "X"}
DocNamed == Obj([nodes |-> Arr(<<NodeB, NodeA>>), connections |-> ConnAB, meta |-> MetaName])
\* a document whose meta collides with the synthesized settings
DocMeta == Obj([nodes |-> Arr(<<NodeA>>), connections |-> NoConns, meta |-> MetaSettings])
\* the JSON text "{}": an object, but no nodes and no connections
DocEmpty == Obj(EmptyFields)
\* a document with an edge from Webhook to Set and no node named Set
DocDangling == Obj([nodes |-> Arr(<<NodeA>>), connections |-> ConnAB])
\* a document with two nodes of id "1"
DocTwins ==
  Obj([nodes |-> Arr(<<NodeA, [NodeB EXCEPT !.id = "1"]>>), connections |-> ConnAB])

\* new Date().toLocaleString() at the moment of the call
Timestamps == {"02/11/2026 10:00:00", "02/11/2026 10:00:01"}

\* -------------------------------------------------- saveWorkflowToN8n
DefaultNamePrefix == "AI Generated Workflow - "

\* { ...base, ...extra }: the keys of extra win; spreading undefined adds nothing
Spread(base, extra) ==
  IF extra.t = "object"
    THEN [k \in (DOMAIN base) \cup (DOMAIN extra.f) |->
            IF k \in DOMAIN extra.f THEN extra.f[k] ELSE base[k]]
    ELSE base

DefaultSettings == Obj([saveManualExecutions |-> Bool(TRUE), callers |-> Arr(<<>>)])

\* The payload with meta spread first, so that the defaults win.
SubmitPayloadDefaultsWin(workflow, now) ==
  LET meta == Get(workflow, "meta")
      base == [name |-> Str(<<DefaultNamePrefix, now>>),
               nodes |-> Get(workflow, "nodes"),
               connections |-> Get(workflow, "connections"),
               settings |-> DefaultSettings]
  IN  Obj(IF meta.t = "object" THEN Spread(meta.f, Obj(base)) ELSE base)

\* lines 66-80: the payload
SubmitPayload(workflow, now) ==
  Obj(Spread([name |-> Str(<<DefaultNamePrefix, now>>),
              nodes |-> Get(workflow, "nodes"),
              connections |-> Get(workflow, "connections"),
              settings |-> DefaultSettings],
             Get(workflow, "meta")))

\* lines 62-63 and 83-90: the one request a submission issues
SubmitRequest(config, workflow, now) ==
  [method |-> "POST",
   url |-> StripSlash(config.baseUrl) \o <<"/api/v1/workflows">>,
   apiKey |-> config.apiKey,
   body |-> SubmitPayload(workflow, now)]

\* Response bodies of the remote: JSON values, or text that is not JSON.
Unparseable == [t |-> "unparseable"]
CreatedBody == Obj([id |-> Str(<<"7">>), name |-> Str(<<"wf">>)])
MessageBody == Obj([message |-> Str(<<"request/body must have required property">>)])

SyntaxErrorValue == Err(<<"Unexpected token">>)

\* Every way the single POST of a submission can end.
SubmitEndings ==
  { Response(s, JsonType, b) : s \in {200, 201}, b \in {CreatedBody, Unparseable} }
    \cup { Response(s, ct, b) : s \in {401, 404, 500}, ct \in {JsonType, HtmlType},
                                 b \in {MessageBody, Obj(EmptyFields), Null, Unparseable} }
    \cup { Rejection(x) : x \in {FailedToFetch, NullishValue} }

\* The error of a non-success status without the fallback to 'Erro <status>'.
SubmitErrorNoFallback(r) ==
  LET errorData == IF r.body = Unparseable
                     THEN Obj([message |-> Str(Text(r.statusText))])
                     ELSE r.body
  IN  IF errorData.t \in {"null", "undefined"} THEN TypeErrorValue
      ELSE IF Truthy(Get(errorData, "message")) THEN Err(Get(errorData, "message").v)
      ELSE Err(<<>>)

\* lines 92-95: the error thrown for a non-success status
SubmitError(r) ==
  LET errorData == IF r.body = Unparseable
                     THEN Obj([message |-> Str(Text(r.statusText))])
                     ELSE r.body
  IN  IF errorData.t \in {"null", "undefined"} THEN TypeErrorValue
      ELSE IF Truthy(Get(errorData, "message")) THEN Err(Get(errorData, "message").v)
      ELSE Err(<<"Erro ", ToString(r.status)>>)

\* The settled promise of saveWorkflowToN8n, given how its fetch ended.
saveWorkflowToN8n(ending) ==
  IF ending.t = "rejection" THEN Rejected(ending.thrown)
  ELSE IF ~ResponseOk(ending) THEN Rejected(SubmitError(ending))
  ELSE IF ending.body = Unparseable THEN Rejected(SyntaxErrorValue)
  ELSE Fulfilled(ending.body)

\* ------------------------------------------------------ the assistant call
\* JSON texts are chunks; JsonValue gives what JSON.parse makes of a chunk.
ExplanationText == <<"Aqui esta o seu workflow.">>

ReplyOf(workflowJson) ==
  Obj([explanation |-> Str(ExplanationText), workflowJson |-> workflowJson,
       requiredCredentials |-> Arr(<<"Slack">>), tips |-> Arr(<<"Ative o workflow">>)])

JsonTexts ==
  {"{plain}", "{named}", "{meta}", "{}", "{reply:none}", "{reply:plain}", "{reply:named}",
   "{reply:meta}", "{reply:empty}", "{reply:broken}", "{reply:bare}", "null",
   "{dangling}", "{twins}", "[]", "5", "[quote]x[quote]", "{reply:dangling}",
   "{reply:twins}", "{reply:list}", "{reply:number}", "{reply:string}"}

JsonValue(chunk) ==
  CASE chunk = "{plain}" -> DocPlain
    [] chunk = "{named}" -> DocNamed
    [] chunk = "{meta}" -> DocMeta
    [] chunk = "{}" -> DocEmpty
    [] chunk = "{reply:none}" -> ReplyOf(Null)
    [] chunk = "{reply:plain}" -> ReplyOf(Str(<<"{plain}">>))
    [] chunk = "{reply:named}" -> ReplyOf(Str(<<"{named}">>))
    [] chunk = "{reply:meta}" -> ReplyOf(Str(<<"{meta}">>))
    [] chunk = "{reply:empty}" -> ReplyOf(Str(<<"{}">>))
    [] chunk = "{reply:broken}" -> ReplyOf(Str(<<"{nodes:">>))
    [] chunk = "null" -> Null
    [] chunk = "{dangling}" -> DocDangling
    [] chunk = "{twins}" -> DocTwins
    [] chunk = "[]" -> Arr(<<>>)
    [] chunk = "5" -> Num(5)
    [] chunk = "[quote]x[quote]" -> Str(<<"x">>)
    [] chunk = "{reply:dangling}" -> ReplyOf(Str(<<"{dangling}">>))
    [] chunk = "{reply:twins}" -> ReplyOf(Str(<<"{twins}">>))
    [] chunk = "{reply:list}" -> ReplyOf(Str(<<"[]">>))
    [] chunk = "{reply:number}" -> ReplyOf(Str(<<"5">>))
    [] chunk = "{reply:string}" -> ReplyOf(Str(<<"[quote]x[quote]">>))
    [] OTHER -> Obj([workflowJson |-> Str(<<"{dangling}">>)])

\* the code-fence marker (three backquotes) as one chunk
Fence == "[fence]"

\* JSON.parse: one JSON text, with optional whitespace around it
JsonParse(text) ==
  LET body == Trim(text) IN
  IF Len(body) = 1 /\ body[1] \in JsonTexts
    THEN [t |-> "parsed", v |-> JsonValue(body[1])]
    ELSE [t |-> "throws", thrown |-> SyntaxErrorValue]

\* the replacement of a closing fence at the end of the text by nothing
StripFenceEnd(s) ==
  IF s /= <<>> /\ s[Len(s)] = Fence THEN SubSeq(s, 1, Len(s) - 1) ELSE s

\* The cleaning without the trim that precedes the tests for a fence.
cleanJsonStringNoTrim(str) ==
  IF Len(str) >= 2 /\ str[1] = Fence /\ str[2] = "json"
    THEN StripFenceEnd(SubSeq(str, 3, Len(str)))
  ELSE IF Len(str) >= 1 /\ str[1] = Fence
    THEN StripFenceEnd(SubSeq(str, 2, Len(str)))
  ELSE str

\* geminiService.ts lines 5-13
cleanJsonString(str) ==
  LET cleaned == Trim(str) IN
  IF Len(cleaned) >= 2 /\ cleaned[1] = Fence /\ cleaned[2] = "json"
    THEN StripFenceEnd(SubSeq(cleaned, 3, Len(cleaned)))
  ELSE IF Len(cleaned) >= 1 /\ cleaned[1] = Fence
    THEN StripFenceEnd(SubSeq(cleaned, 2, Len(cleaned)))
  ELSE cleaned

\* a value interpolated in a template literal
TemplateText(v) ==
  CASE v.t = "string" -> v.v
    [] v.t = "undefined" -> <<"undefined">>
    [] OTHER -> <<"null">>

ApologyPrefix == "Desculpe, encontrei um erro ao processar sua solicitacao: "
Apology(msg) == <<ApologyPrefix>> \o TemplateText(msg) \o <<". Tente novamente.">>

\* A catch block that logs the error and throws it again.
GeminiCatchRethrow(thrown) == Rejected(thrown)

\* lines 128-134: the catch block of sendMessageToGemini
GeminiCatch(thrown) ==
  LET msg == MessageOf(thrown) IN
  IF msg.t = "throws" THEN Rejected(TypeErrorValue)
  ELSE Fulfilled(Obj([explanation |-> Str(Apology(msg)), workflow |-> Null]))

\* The result without the inner try/catch: a workflowJson that does not parse
\* ends in the outer catch block.
GeminiResultNoInnerCatch(parsedRaw) ==
  LET wj == Get(parsedRaw, "workflowJson")
      inner == IF Truthy(wj) THEN JsonParse(wj.v) ELSE [t |-> "skipped"]
      workflowObj == IF inner.t = "parsed" THEN inner.v ELSE Null
  IN  IF inner.t = "throws"
        THEN Obj([explanation |-> Str(Apology(MessageOf(inner.thrown))), workflow |-> Null])
        ELSE Obj([explanation |-> Get(parsedRaw, "explanation"),
                  workflow |-> workflowObj,
                  requiredCredentials |-> Get(parsedRaw, "requiredCredentials"),
                  tips |-> Get(parsedRaw, "tips")])

\* lines 110-126: the second parse and the result
GeminiResult(parsedRaw) ==
  LET wj == Get(parsedRaw, "workflowJson")
      inner == IF Truthy(wj) THEN JsonParse(wj.v) ELSE [t |-> "skipped"]
      workflowObj == IF inner.t = "parsed" THEN inner.v ELSE Null
  IN  Obj([explanation |-> Get(parsedRaw, "explanation"),
           workflow |-> workflowObj,
           requiredCredentials |-> Get(parsedRaw, "requiredCredentials"),
           tips |-> Get(parsedRaw, "tips")])

\* What the upstream call can answer: a rejection, or a reply with a text.
ReplyTexts ==
  { <<>>,
    <<"{reply:none}">>,
    <<"{reply:plain}">>,
    <<Fence, "json", "\n", "{reply:named}", "\n", Fence>>,
    <<Fence, "\n", "{reply:meta}", "\n", Fence, "\n">>,
    <<"{reply:empty}">>,
    <<"{reply:broken}">>,
    <<"{reply:bare}">>,
    <<"null">>,
    <<"Claro!", " ", "{reply:plain}">> }

\* A reply text the assistant wrapped in a code fence: bare or with a language
\* tag, with or without newlines and surrounding whitespace.
Fenced(t) ==
  { <<Fence, "\n", t, "\n", Fence>>,
    <<Fence, t, Fence>>,
    <<Fence, "json", "\n", t, "\n", Fence>>,
    <<" ", Fence, "json", t, Fence, "\n">>,
    <<Fence, "JSON", "\n", t, "\n", Fence>>,
    <<Fence, "javascript", "\n", t, "\n", Fence, "\n">> }

FencedTexts == UNION { Fenced(t) \cup {<<t>>, <<" ", t, "\n">>} : t \in JsonTexts }

AssistantEndings ==
  { [t |-> "reply", text |-> Str(x)] : x \in ReplyTexts \cup FencedTexts }
    \cup { [t |-> "reply", text |-> Undefined] }
    \cup { Rejection(x) : x \in {Err(<<"503 overloaded">>), NoMessageValue, NullishValue} }

\* A build without an API key throws before any upstream call (lines 77-80).
NoUpstreamCall == [t |-> "none"]

\* The settled promise of sendMessageToGemini, given whether the build carries
\* an API key and how chat.sendMessage ended.
sendMessageToGemini(hasKey, ending) ==
  IF ~hasKey
    THEN GeminiCatch(Err(<<"API Key not found in environment variables.">>))
  ELSE IF ending.t = "rejection" THEN GeminiCatch(ending.thrown)
  ELSE IF ~Truthy(ending.text) THEN GeminiCatch(Err(<<"No response from Gemini">>))
  ELSE LET outer == JsonParse(cleanJsonString(ending.text.v)) IN
       IF outer.t = "throws" THEN GeminiCatch(outer.thrown)
       ELSE IF outer.v = Null THEN GeminiCatch(TypeErrorValue)
       ELSE Fulfilled(GeminiResult(outer.v))

\* ------------------------------------------------------ connection configs
\* N8nConnectionConfig; URLs are chunked so that the scheme test and the
\* trailing-slash replacement see single characters where they matter.
Config(url, key) == [t |-> "object", baseUrl |-> url, apiKey |-> key]

UrlA == <<"http", ":", "/", "/", "a.io">>
UrlB == <<"http", "s", ":", "/", "/", "b.io">>

\* What the user can have in a URL field and in a key field.
RawUrls == { <<>>, UrlA \o <<"/">>, UrlB \o <<"/", "/">> }
\* what is typed on the login screen; the settings dialog sees every RawUrls
LoginUrls == { <<>>, UrlA \o <<"/">> }
RawKeys == { <<>>, <<"key-1", " ">> }
\* the login screen also sees a key of whitespace only
LoginKeys == RawKeys \cup { <<" ">> }
\* the pairs typed into the login screen: both fields empty, or both filled
LoginInputs ==
  { typed \in LoginUrls \X LoginKeys : (typed[1] = <<>>) <=> (typed[2] = <<>>) }

\* LoginScreen lines 159-167, SettingsModal lines 33-39
FormatUrl(raw) ==
  LET trimmed == Trim(raw)
      withScheme == IF trimmed /= <<>> /\ trimmed[1] = "http"
                      THEN trimmed
                      ELSE <<"http", "s", ":", "/", "/">> \o trimmed
  IN  StripSlash(withScheme)

FormConfig(rawUrl, rawKey) == Config(FormatUrl(rawUrl), Trim(rawKey))

\* JSON.stringify(config), as stored under 'n8n_config'
Stringify(config) ==
  <<"{baseUrl:">> \o config.baseUrl \o <<",apiKey:">> \o config.apiKey \o <<"}">>

\* JSON.parse of the stored text
ParseStored(text) ==
  IF Len(text) >= 3 /\ text[1] = "{baseUrl:" /\ text[Len(text)] = "}"
       /\ Includes(text, ",apiKey:")
    THEN LET i == CHOOSE j \in 1..Len(text) : text[j] = ",apiKey:"
         IN  [t |-> "parsed",
              v |-> Config(SubSeq(text, 2, i - 1), SubSeq(text, i + 1, Len(text) - 1))]
    ELSE [t |-> "throws", thrown |-> SyntaxErrorValue]

\* What localStorage can hold under 'n8n_config' when the page loads.
StoredAtStart ==
  { Null,
    Str(Stringify(Config(UrlA, <<"key-1">>))),
    Str(Stringify(Config(<<>>, <<"key-1">>))),
    Str(<<"{baseUrl:">>) }

\* ------------------------------------------------------------------ state
VARIABLES
  hasKey,              \* process.env.API_KEY is set in this build
  booted,              \* App's mount effect has run
  storage,             \* localStorage item 'n8n_config': Null or Str(text)
  isAuthenticated,     \* App state
  n8nConfig,           \* App state: Null or a Config
  messages,            \* App state: sequence of [role, content]
  isLoading,           \* App state
  currentWorkflow,     \* App state: Null or a document
  workflowCredentials, \* App state
  workflowTips,        \* App state
  isSettingsOpen,      \* App state
  hasError,            \* ErrorBoundary state
  login,               \* LoginScreen state: baseUrl, apiKey, error, isValidating
  settings,            \* SettingsModal state: baseUrl, apiKey, error, isValidating
  preview,             \* WorkflowPreview state: activeTab, isSaving, saveStatus
  pending,             \* calls awaiting their answer, in the order they were made
  nCalls,              \* how many calls were made so far
  ev                   \* the handler or continuation that ran last, with what it saw

vars ==
  <<hasKey, booted, storage, isAuthenticated, n8nConfig, messages, isLoading,
    currentWorkflow, workflowCredentials, workflowTips, isSettingsOpen, hasError,
    login, settings, preview, pending, nCalls, ev>>

appVars ==
  <<messages, isLoading, currentWorkflow, workflowCredentials, workflowTips>>

LoginInit == [baseUrl |-> <<>>, apiKey |-> <<>>, error |-> Str(<<>>), isValidating |-> FALSE]
SettingsInit == [baseUrl |-> <<>>, apiKey |-> <<>>, error |-> Null, isValidating |-> FALSE]
PreviewInit == [activeTab |-> "visual", isSaving |-> FALSE, saveStatus |-> Null]

NoRequest == [method |-> "NONE"]

Init ==
  /\ hasKey \in BOOLEAN
  /\ booted = FALSE
  /\ storage \in StoredAtStart
  /\ isAuthenticated = FALSE
  /\ n8nConfig = Null
  /\ messages = <<>>
  /\ isLoading = FALSE
  /\ currentWorkflow = Null
  /\ workflowCredentials = Arr(<<>>)
  /\ workflowTips = Arr(<<>>)
  /\ isSettingsOpen = FALSE
  /\ hasError = FALSE
  /\ login = LoginInit
  /\ settings = SettingsInit
  /\ preview = PreviewInit
  /\ pending = <<>>
  /\ nCalls = 0
  /\ ev = [op |-> "Init"]

\* ------------------------------------------------------------ rendering
RemoveAt(s, i) == SubSeq(s, 1, i - 1) \o SubSeq(s, i + 1, Len(s))

RECURSIVE InsertNode(_, _)
InsertNode(sorted, n) ==
  IF sorted = <<>> \/ sorted[Len(sorted)].position[1] <= n.position[1]
    THEN Append(sorted, n)
    ELSE Append(InsertNode(SubSeq(sorted, 1, Len(sorted) - 1), n), sorted[Len(sorted)])

RECURSIVE SortFrom(_, _)
SortFrom(sorted, rest) ==
  IF rest = <<>> THEN sorted ELSE SortFrom(InsertNode(sorted, Head(rest)), Tail(rest))

\* nodes.sort((a,b) => a.position[0] - b.position[0]): stable, in place
SortByX(nodes) == SortFrom(<<>>, nodes)

\* WorkflowPreview's render (geminiService.ts lines 193-326): the visual tab
\* reads workflow.nodes.length and sorts workflow.nodes in place.
RenderPreview(workflow, tab) ==
  IF ~Truthy(workflow) \/ tab /= "visual"
    THEN [crashed |-> FALSE, workflow |-> workflow]
  ELSE IF Get(workflow, "nodes").t /= "array"
    THEN [crashed |-> TRUE, workflow |-> workflow]
  ELSE [crashed |-> FALSE,
        workflow |-> Obj([workflow.f EXCEPT !.nodes = Arr(SortByX(workflow.f.nodes.v))])]

\* Calls whose component has unmounted: their setState calls do nothing.
Unmount(calls, origins) ==
  [i \in 1..Len(calls) |->
     IF calls[i].origin \in origins THEN [calls[i] EXCEPT !.live = FALSE] ELSE calls[i]]

\* SettingsModal lines 18-24: the effect on [isOpen, currentConfig]
SettingsEffect(st, isOpen, config) ==
  IF isOpen /\ Truthy(config)
    THEN [st EXCEPT !.baseUrl = config.baseUrl, !.apiKey = config.apiKey, !.error = Null]
    ELSE st

\* The render that follows a state change: App.tsx lines 175-309 under the
\* ErrorBoundary of lines 22-75.  A throwing render replaces the children by
\* the fallback, which unmounts them.
Commit(auth, workflow, sett, prev, calls) ==
  LET r == IF auth /\ ~hasError
             THEN RenderPreview(workflow, prev.activeTab)
             ELSE [crashed |-> FALSE, workflow |-> workflow]
  IN  /\ hasError' = (hasError \/ r.crashed)
      /\ currentWorkflow' = r.workflow
      /\ settings' = IF r.crashed THEN SettingsInit ELSE sett
      /\ preview' = IF r.crashed THEN PreviewInit ELSE prev
      /\ pending' = IF r.crashed THEN Unmount(calls, {"settings", "preview"}) ELSE calls

Interactive == booted /\ ~hasError

\* ------------------------------------------------------------- App.tsx
\* lines 95-109: the mount effect
LoadConfig ==
  /\ ~booted
  /\ booted' = TRUE
  /\ LET parsed == IF Truthy(storage) THEN ParseStored(storage.v) ELSE [t |-> "none"]
         accept == parsed.t = "parsed" /\ Truthy(Str(parsed.v.baseUrl))
                     /\ Truthy(Str(parsed.v.apiKey))
     IN  /\ storage' = IF parsed.t = "throws" THEN Null ELSE storage
         /\ n8nConfig' = IF accept THEN parsed.v ELSE n8nConfig
         /\ isAuthenticated' = (accept \/ isAuthenticated)
         /\ Commit(accept \/ isAuthenticated, currentWorkflow, settings, preview, pending)
  /\ ev' = [op |-> "LoadConfig"]
  /\ UNCHANGED <<nCalls, hasKey, messages, isLoading, workflowCredentials, workflowTips,
                 isSettingsOpen, login>>

\* lines 119-127; a cancelled confirm changes nothing
handleLogout(confirmed) ==
  /\ Interactive /\ isAuthenticated /\ ~isSettingsOpen
  /\ IF confirmed
       THEN /\ storage' = Null
            /\ n8nConfig' = Null
            /\ isAuthenticated' = FALSE
            /\ messages' = <<>>
            /\ Commit(FALSE, Null, SettingsInit, PreviewInit,
                      Unmount(pending, {"settings", "preview"}))
            /\ ev' = [op |-> "handleLogout", confirmed |-> confirmed]
            /\ UNCHANGED <<nCalls, hasKey, booted, isLoading, workflowCredentials,
                           workflowTips, isSettingsOpen, login>>
       ELSE UNCHANGED vars

\* lines 36-39: the fallback's button; reloading the page drops every call
handleReset ==
  /\ hasError
  /\ storage' = Null
  /\ booted' = FALSE
  /\ isAuthenticated' = FALSE
  /\ n8nConfig' = Null
  /\ messages' = <<>>
  /\ isLoading' = FALSE
  /\ currentWorkflow' = Null
  /\ workflowCredentials' = Arr(<<>>)
  /\ workflowTips' = Arr(<<>>)
  /\ isSettingsOpen' = FALSE
  /\ hasError' = FALSE
  /\ login' = LoginInit
  /\ settings' = SettingsInit
  /\ preview' = PreviewInit
  /\ pending' = <<>>
  /\ ev' = [op |-> "handleReset"]
  /\ UNCHANGED <<hasKey, nCalls>>

\* lines 228, 254, 281
OpenSettings ==
  /\ Interactive /\ isAuthenticated /\ ~isSettingsOpen
  /\ isSettingsOpen' = TRUE
  /\ settings' = SettingsEffect(settings, TRUE, n8nConfig)
  /\ ev' = [op |-> "OpenSettings"]
  /\ UNCHANGED <<nCalls, hasKey, booted, storage, isAuthenticated, n8nConfig, appVars, hasError,
                 login, preview, pending>>

\* line 189, from the modal's close button (SettingsModal line 62)
CloseSettings ==
  /\ Interactive /\ isAuthenticated /\ isSettingsOpen
  /\ isSettingsOpen' = FALSE
  /\ ev' = [op |-> "CloseSettings"]
  /\ UNCHANGED <<nCalls, hasKey, booted, storage, isAuthenticated, n8nConfig, appVars, hasError,
                 login, settings, preview, pending>>

\* ------------------------------------------------- validation from the forms
Call(op, origin, config, request) ==
  [op |-> op, origin |-> origin, live |-> TRUE, config |-> config, request |-> request]

\* A call that is made again when its promise rejected.
SettledRetry(calls, i, outcome) ==
  IF outcome.state = "rejected" THEN calls ELSE RemoveAt(calls, i)

\* The calls still awaiting an answer once call i has settled: neither
\* validateN8nConnection nor saveWorkflowToN8n nor sendMessageToGemini loops
\* around its request (n8nApiService.ts lines 18-55, 82-102).
Settled(calls, i, outcome) == RemoveAt(calls, i)

FillAllText == <<"Por favor, preencha todos os campos.">>
LoginFailedText == <<"Nao foi possivel conectar. Verifique a URL e a API Key. Certifique-se de que sua instancia n8n esta acessivel.">>
LoginThrownText == <<"Erro de conexao. Verifique se o n8n esta rodando e acessivel.">>
SettingsFailedText == <<"Nao foi possivel conectar. Verifique a URL e a API Key.">>

\* LoginScreen: the inputs' onChange (ChatInterface.tsx lines 212, 227)
LoginType(url, key) ==
  /\ Interactive /\ ~isAuthenticated /\ ~login.isValidating
  /\ <<url, key>> /= <<login.baseUrl, login.apiKey>>
  /\ login' = [login EXCEPT !.baseUrl = url, !.apiKey = key]
  /\ ev' = [op |-> "LoginType"]
  /\ UNCHANGED <<nCalls, hasKey, booted, storage, isAuthenticated, n8nConfig, appVars,
                 isSettingsOpen, hasError, settings, preview, pending>>

\* LoginScreen.handleSubmit up to its await (ChatInterface.tsx lines 150-171)
LoginSubmit ==
  /\ Interactive /\ ~isAuthenticated /\ ~login.isValidating
  /\ IF ~Truthy(Str(login.baseUrl)) \/ ~Truthy(Str(login.apiKey))
       THEN /\ login' = [login EXCEPT !.error = Str(FillAllText)]
            /\ UNCHANGED <<pending, nCalls>>
            /\ ev' = [op |-> "LoginSubmit", issued |-> FALSE]
       ELSE LET config == FormConfig(login.baseUrl, login.apiKey) IN
            /\ nCalls < MaxCalls
            /\ nCalls' = nCalls + 1
            /\ login' = [login EXCEPT !.error = Str(<<>>), !.isValidating = TRUE]
            /\ pending' = Append(pending, Call("validate", "login", config,
                                               ValidateRequest(config)))
            /\ ev' = [op |-> "LoginSubmit", issued |-> TRUE]
  /\ UNCHANGED <<hasKey, booted, storage, isAuthenticated, n8nConfig, appVars,
                 isSettingsOpen, hasError, settings, preview>>

\* SettingsModal: the inputs' onChange (lines 84, 100)
SettingsType(url, key) ==
  /\ Interactive /\ isAuthenticated /\ isSettingsOpen /\ ~settings.isValidating
  /\ <<url, key>> /= <<settings.baseUrl, settings.apiKey>>
  /\ settings' = [settings EXCEPT !.baseUrl = url, !.apiKey = key]
  /\ ev' = [op |-> "SettingsType"]
  /\ UNCHANGED <<nCalls, hasKey, booted, storage, isAuthenticated, n8nConfig, appVars,
                 isSettingsOpen, hasError, login, preview, pending>>

\* SettingsModal.handleSubmit up to its await (lines 28-42); both inputs are
\* required (lines 81, 97), so the form submits only with both filled.
SettingsSubmit ==
  /\ Interactive /\ isAuthenticated /\ isSettingsOpen /\ ~settings.isValidating
  /\ settings.baseUrl /= <<>> /\ settings.apiKey /= <<>>
  /\ nCalls < MaxCalls
  /\ nCalls' = nCalls + 1
  /\ LET config == FormConfig(settings.baseUrl, settings.apiKey) IN
       pending' = Append(pending, Call("validate", "settings", config,
                                       ValidateRequest(config)))
  /\ settings' = [settings EXCEPT !.error = Null, !.isValidating = TRUE]
  /\ ev' = [op |-> "SettingsSubmit", issued |-> TRUE]
  /\ UNCHANGED <<hasKey, booted, storage, isAuthenticated, n8nConfig, appVars,
                 isSettingsOpen, hasError, login, preview>>

\* The continuation of LoginScreen.handleSubmit (ChatInterface.tsx lines
\* 171-181) with App.handleLogin (App.tsx lines 111-117).
LoginContinue(call, outcome, rest) ==
  LET resolved == outcome.state = "fulfilled"
      accepted == resolved /\ Truthy(outcome.value)
      auth == accepted \/ isAuthenticated
      mounts == accepted /\ ~isAuthenticated
  IN  /\ n8nConfig' = IF accepted THEN call.config ELSE n8nConfig
      /\ storage' = IF accepted /\ Truthy(call.config)
                      THEN Str(Stringify(call.config)) ELSE storage
      /\ isAuthenticated' = auth
      /\ login' = IF ~call.live THEN login
                  ELSE IF accepted THEN LoginInit
                  ELSE [login EXCEPT !.isValidating = FALSE,
                                     !.error = IF resolved THEN Str(LoginFailedText)
                                                           ELSE Str(LoginThrownText)]
      /\ Commit(auth, currentWorkflow,
                IF mounts THEN SettingsEffect(SettingsInit, isSettingsOpen, call.config)
                          ELSE settings,
                IF mounts THEN PreviewInit ELSE preview,
                rest)
      /\ UNCHANGED isSettingsOpen

\* The continuation of SettingsModal.handleSubmit (lines 42-51) with
\* App.handleSaveConfig (App.tsx lines 129-132) and onClose (line 189).
SettingsContinue(call, outcome, rest) ==
  LET resolved == outcome.state = "fulfilled"
      accepted == resolved /\ Truthy(outcome.value)
  IN  /\ n8nConfig' = IF accepted THEN call.config ELSE n8nConfig
      /\ storage' = IF accepted THEN Str(Stringify(call.config)) ELSE storage
      /\ isSettingsOpen' = IF accepted THEN FALSE ELSE isSettingsOpen
      /\ Commit(isAuthenticated, currentWorkflow,
                IF ~call.live \/ ~resolved THEN settings
                ELSE IF accepted THEN [settings EXCEPT !.isValidating = FALSE]
                ELSE [settings EXCEPT !.isValidating = FALSE,
                                      !.error = Str(SettingsFailedText)],
                preview, rest)
      /\ UNCHANGED <<isAuthenticated, login>>

\* The answer to a validation's request arrives.
ValidationSettle(i, ending) ==
  /\ booted
  /\ pending[i].op = "validate"
  /\ LET call == pending[i]
         outcome == validateN8nConnection(call.config, ending)
         rest == Settled(pending, i, outcome)
     IN  /\ IF call.origin = "login"
              THEN LoginContinue(call, outcome, rest)
              ELSE SettingsContinue(call, outcome, rest)
         /\ ev' = [op |-> "ValidationSettle", origin |-> call.origin, live |-> call.live,
                   outcome |-> outcome]
  /\ UNCHANGED <<nCalls, hasKey, booted, messages, isLoading, workflowCredentials, workflowTips>>

\* ---------------------------------------------------------------- the chat
ChatTexts == { <<"crie um webhook">>, <<" ">> }

UserMessage(text) == [role |-> "user", content |-> Str(text)]
ModelMessage(content) == [role |-> "model", content |-> content]

CommErrorText == <<"Erro de comunicacao com a IA. Verifique sua chave API do Gemini.">>

\* geminiService.ts lines 77-101: what sendMessageToGemini sends upstream;
\* without an API key it throws before any request is made.
ChatRequest(history, currentMessage) ==
  IF hasKey
    THEN [method |-> "CHAT",
          history |-> [j \in 1..Len(history) |->
                         [role |-> history[j].role, text |-> history[j].content]],
          message |-> Str(currentMessage)]
    ELSE NoRequest

\* ChatInterface.handleSubmit (ChatInterface.tsx lines 29-34) and
\* App.handleSendMessage up to its await (App.tsx lines 134-144)
SendMessage(text) ==
  /\ Interactive /\ isAuthenticated /\ ~isSettingsOpen
  /\ IF ~Truthy(Str(Trim(text))) \/ isLoading
       THEN /\ UNCHANGED <<messages, isLoading, pending, nCalls>>
            /\ ev' = [op |-> "SendMessage", issued |-> FALSE]
       ELSE LET newHistory == Append(messages, UserMessage(text)) IN
            /\ Len(messages) + 2 <= MaxMessages
            /\ nCalls < MaxCalls
            /\ nCalls' = nCalls + 1
            /\ messages' = newHistory
            /\ isLoading' = TRUE
            /\ pending' = Append(pending, Call("chat", "app", Null,
                                               ChatRequest(newHistory, text)))
            /\ ev' = [op |-> "SendMessage", issued |-> TRUE]
  /\ UNCHANGED <<hasKey, booted, storage, isAuthenticated, n8nConfig, currentWorkflow,
                 workflowCredentials, workflowTips, isSettingsOpen, hasError, login,
                 settings, preview>>

\* v || []
OrEmpty(v) == IF Truthy(v) THEN v ELSE Arr(<<>>)

\* A continuation that keeps the old list where the new turn brings none.
AssistantSettleMerging(i, ending) ==
  /\ booted
  /\ pending[i].op = "chat"
  /\ hasKey <=> ending /= NoUpstreamCall
  /\ LET call == pending[i]
         outcome == sendMessageToGemini(hasKey, ending)
         rest == Settled(pending, i, outcome)
         resolved == outcome.state = "fulfilled"
         response == IF resolved THEN outcome.value ELSE Undefined
         installs == resolved /\ Truthy(Get(response, "workflow"))
     IN  /\ messages' = Append(messages,
                               IF resolved THEN ModelMessage(Get(response, "explanation"))
                                           ELSE ModelMessage(Str(CommErrorText)))
         /\ workflowCredentials' =
              IF installs /\ Truthy(Get(response, "requiredCredentials"))
                THEN Get(response, "requiredCredentials")
                          ELSE workflowCredentials
         /\ workflowTips' = IF installs /\ Truthy(Get(response, "tips")) THEN Get(response, "tips") ELSE workflowTips
         /\ isLoading' = FALSE
         /\ Commit(isAuthenticated,
                   IF installs THEN Get(response, "workflow") ELSE currentWorkflow,
                   settings, preview, rest)
         /\ ev' = [op |-> "AssistantSettle", origin |-> call.origin, live |-> call.live,
                   ending |-> ending, outcome |-> outcome]
  /\ UNCHANGED <<nCalls, hasKey, booted, storage, isAuthenticated, n8nConfig, isSettingsOpen, login>>

\* The continuation of App.handleSendMessage (App.tsx lines 144-171)
AssistantSettle(i, ending) ==
  /\ booted
  /\ pending[i].op = "chat"
  /\ hasKey <=> ending /= NoUpstreamCall
  /\ LET call == pending[i]
         outcome == sendMessageToGemini(hasKey, ending)
         rest == Settled(pending, i, outcome)
         resolved == outcome.state = "fulfilled"
         response == IF resolved THEN outcome.value ELSE Undefined
         installs == resolved /\ Truthy(Get(response, "workflow"))
     IN  /\ messages' = Append(messages,
                               IF resolved THEN ModelMessage(Get(response, "explanation"))
                                           ELSE ModelMessage(Str(CommErrorText)))
         /\ workflowCredentials' =
              IF installs THEN OrEmpty(Get(response, "requiredCredentials"))
                          ELSE workflowCredentials
         /\ workflowTips' = IF installs THEN OrEmpty(Get(response, "tips")) ELSE workflowTips
         /\ isLoading' = FALSE
         /\ Commit(isAuthenticated,
                   IF installs THEN Get(response, "workflow") ELSE currentWorkflow,
                   settings, preview, rest)
         /\ ev' = [op |-> "AssistantSettle", origin |-> call.origin, live |-> call.live,
                   ending |-> ending, outcome |-> outcome]
  /\ UNCHANGED <<nCalls, hasKey, booted, storage, isAuthenticated, n8nConfig, isSettingsOpen, login>>

\* ------------------------------------------------------- WorkflowPreview
\* geminiService.ts lines 217, 223, 229: the tab buttons
SetActiveTab(tab) ==
  /\ Interactive /\ isAuthenticated /\ ~isSettingsOpen /\ Truthy(currentWorkflow)
  /\ tab /= preview.activeTab
  /\ Commit(isAuthenticated, currentWorkflow, settings,
            [preview EXCEPT !.activeTab = tab], pending)
  /\ ev' = [op |-> "SetActiveTab"]
  /\ UNCHANGED <<nCalls, hasKey, booted, storage, isAuthenticated, n8nConfig, messages, isLoading,
                 workflowCredentials, workflowTips, isSettingsOpen, login>>

\* The save button left enabled while a submission is on its way.
handleSaveToN8nWhileSaving(now) ==
  /\ Interactive /\ isAuthenticated /\ ~isSettingsOpen /\ Truthy(currentWorkflow)
  /\ IF ~Truthy(n8nConfig)
       THEN /\ isSettingsOpen' = TRUE
            /\ UNCHANGED <<preview, pending, nCalls>>
            /\ ev' = [op |-> "handleSaveToN8n", issued |-> FALSE]
       ELSE /\ nCalls < MaxCalls
            /\ nCalls' = nCalls + 1
            /\ preview' = [preview EXCEPT !.isSaving = TRUE, !.saveStatus = Null]
            /\ pending' = Append(pending, Call("submit", "preview", n8nConfig,
                                   SubmitRequest(n8nConfig, currentWorkflow, now)))
            /\ isSettingsOpen' = isSettingsOpen
            /\ ev' = [op |-> "handleSaveToN8n", issued |-> TRUE]
  /\ UNCHANGED <<hasKey, booted, storage, isAuthenticated, n8nConfig, appVars, hasError,
                 login, settings>>

\* WorkflowPreview.handleSaveToN8n up to its await (geminiService.ts lines
\* 169-178); the button is rendered only with a workflow (line 193) and is
\* disabled while isSaving (line 239).
handleSaveToN8n(now) ==
  /\ Interactive /\ isAuthenticated /\ ~isSettingsOpen /\ Truthy(currentWorkflow)
  /\ ~preview.isSaving
  /\ IF ~Truthy(n8nConfig)
       THEN /\ isSettingsOpen' = TRUE
            /\ UNCHANGED <<preview, pending, nCalls>>
            /\ ev' = [op |-> "handleSaveToN8n", issued |-> FALSE]
       ELSE /\ nCalls < MaxCalls
            /\ nCalls' = nCalls + 1
            /\ preview' = [preview EXCEPT !.isSaving = TRUE, !.saveStatus = Null]
            /\ pending' = Append(pending, Call("submit", "preview", n8nConfig,
                                   SubmitRequest(n8nConfig, currentWorkflow, now)))
            /\ isSettingsOpen' = isSettingsOpen
            /\ ev' = [op |-> "handleSaveToN8n", issued |-> TRUE]
  /\ UNCHANGED <<hasKey, booted, storage, isAuthenticated, n8nConfig, appVars, hasError,
                 login, settings>>

SavedStatus(result) ==
  [success |-> TRUE,
   message |-> <<"Workflow ">> \o TemplateText(Get(result, "name"))
                 \o <<" salvo com sucesso! (ID: ">> \o TemplateText(Get(result, "id"))
                 \o <<")">>]

FailedStatus(msg) ==
  [success |-> FALSE,
   message |-> <<"Erro ao salvar: ">> \o TemplateText(msg)
                 \o <<". Verifique CORS e credenciais.">>]

\* lines 178-190: what the handler leaves in saveStatus once the call settled
SaveStatusAfter(outcome, before) ==
  LET thrown == IF outcome.state = "rejected" THEN outcome.reason
                ELSE IF outcome.value.t \in {"null", "undefined"} THEN TypeErrorValue
                ELSE [t |-> "none"]
  IN  IF thrown.t = "none" THEN SavedStatus(outcome.value)
      ELSE IF MessageOf(thrown).t = "throws" THEN before
      ELSE FailedStatus(MessageOf(thrown))

\* The answer to a submission's request arrives.
SaveSettle(i, ending) ==
  /\ booted
  /\ pending[i].op = "submit"
  /\ LET call == pending[i]
         outcome == saveWorkflowToN8n(ending)
         rest == Settled(pending, i, outcome)
     IN  /\ Commit(isAuthenticated, currentWorkflow, settings,
                   IF call.live
                     THEN [preview EXCEPT !.isSaving = FALSE,
                                          !.saveStatus = SaveStatusAfter(outcome, @)]
                     ELSE preview,
                   rest)
         /\ ev' = [op |-> "SaveSettle", origin |-> call.origin, live |-> call.live,
                   outcome |-> outcome]
  /\ UNCHANGED <<nCalls, hasKey, booted, storage, isAuthenticated, n8nConfig, messages, isLoading,
                 workflowCredentials, workflowTips, isSettingsOpen, login>>

\* ---------------------------------------------------------- specification
\* The handlers look only at whether the promise resolved and at its value, so
\* the UI is explored with one ending of each kind; the client functions are
\* explored with every ending under ClientSpec.
SeenValidateEndings ==
  { Response(200, JsonCharsetType, ""), Response(401, JsonType, ""),
    Response(200, HtmlType, ""), Rejection(FailedToFetch), Rejection(NullishValue) }

SeenAssistantEndings ==
  { [t |-> "reply", text |-> Str(<<"{reply:none}">>)],
    [t |-> "reply", text |-> Str(<<Fence, "json", "\n", "{reply:named}", "\n", Fence>>)],
    [t |-> "reply", text |-> Str(<<"{reply:empty}">>)],
    [t |-> "reply", text |-> Str(<<"{reply:broken}">>)],
    [t |-> "reply", text |-> Str(<<"{reply:bare}">>)],
    Rejection(NullishValue),
    NoUpstreamCall }

SeenSubmitEndings ==
  { Response(200, JsonType, CreatedBody), Response(401, JsonType, MessageBody),
    Response(500, HtmlType, Unparseable), Rejection(FailedToFetch),
    Rejection(NullishValue) }

Next ==
  \/ LoadConfig
  \/ \E confirmed \in BOOLEAN : handleLogout(confirmed)
  \/ handleReset
  \/ OpenSettings
  \/ CloseSettings
  \/ \E typed \in LoginInputs : LoginType(typed[1], typed[2])
  \/ LoginSubmit
  \/ \E url \in RawUrls \ {<<>>}, key \in RawKeys : SettingsType(url, key)
  \/ SettingsSubmit
  \/ \E i \in 1..Len(pending), ending \in SeenValidateEndings : ValidationSettle(i, ending)
  \/ \E text \in ChatTexts : SendMessage(text)
  \/ \E i \in 1..Len(pending), ending \in SeenAssistantEndings : AssistantSettle(i, ending)
  \/ \E tab \in {"visual", "json", "setup"} : SetActiveTab(tab)
  \/ \E now \in Timestamps : handleSaveToN8n(now)
  \/ \E i \in 1..Len(pending), ending \in SeenSubmitEndings : SaveSettle(i, ending)

Spec == Init /\ [][Next]_vars

\* ------------------------------------------------ the client functions alone
\* ClientSpec calls validateN8nConnection and saveWorkflowToN8n on every input
\* of ProbeConfigs, ProbeWorkflows and Timestamps and lets the request end in
\* every way of ValidateEndings and SubmitEndings.
ProbeConfigs ==
  { FormConfig(url, key) : url \in RawUrls \ {<<>>}, key \in RawKeys \ {<<>>} }
    \cup { Config(UrlA \o <<"/">>, <<"key-1">>), Config(UrlA, <<>>),
           FormConfig(<<"ftp", ":", "/", "/", "a.io">>, <<"key-1">>) }

ProbeWorkflows == { DocPlain, DocNamed, DocMeta, DocEmpty, DocDangling, DocTwins }

Probe(fn, config, workflow, now) ==
  [op |-> "probe", fn |-> fn, config |-> config, workflow |-> workflow, now |-> now]

ClientInit ==
  /\ ev \in { Probe("validate", c, Null, "") : c \in ProbeConfigs }
         \cup { Probe("submit", c, w, now) :
                  c \in ProbeConfigs, w \in ProbeWorkflows, now \in Timestamps }
         \cup { Probe("assistant", Null, Null, "") }
  /\ hasKey \in (IF ev.fn = "assistant" THEN BOOLEAN ELSE {TRUE})
  /\ booted = FALSE
  /\ storage = Null
  /\ isAuthenticated = FALSE
  /\ n8nConfig = Null
  /\ messages = <<>>
  /\ isLoading = FALSE
  /\ currentWorkflow = Null
  /\ workflowCredentials = Arr(<<>>)
  /\ workflowTips = Arr(<<>>)
  /\ isSettingsOpen = FALSE
  /\ hasError = FALSE
  /\ login = LoginInit
  /\ settings = SettingsInit
  /\ preview = PreviewInit
  /\ pending = <<>>
  /\ nCalls = 0

uiVars ==
  <<hasKey, booted, storage, isAuthenticated, n8nConfig, messages, isLoading,
    currentWorkflow, workflowCredentials, workflowTips, isSettingsOpen, hasError,
    login, settings, preview, nCalls>>

\* n8nApiService.ts lines 13-25: validateN8nConnection up to its await
\* What a call writes to the console, in order: the label and the value of each
\* console.error.

\* A catch block that logs the config next to the error.
ValidateConsoleWithConfig(config, ending) ==
  IF ending.t = "rejection"
    THEN <<[label |-> "Validation Error:", value |-> ending.thrown],
           [label |-> "config", value |-> config]>>
    ELSE <<>>

\* n8nApiService.ts line 43: the catch block of validateN8nConnection
ValidateConsole(config, ending) ==
  IF ending.t = "rejection"
    THEN <<[label |-> "Validation Error:", value |-> ending.thrown]>>
    ELSE <<>>

\* n8nApiService.ts line 100: the catch block of saveWorkflowToN8n, which logs
\* what the fetch or the function itself threw, then throws it again
SubmitConsole(config, ending) ==
  LET outcome == saveWorkflowToN8n(ending) IN
  IF outcome.state = "rejected"
    THEN <<[label |-> "N8N API Error:", value |-> outcome.reason]>>
    ELSE <<>>

ValidateCall ==
  /\ ev.op = "probe" /\ ev.fn = "validate"
  /\ pending' = <<Call("validate", "probe", ev.config, ValidateRequest(ev.config))>>
  /\ ev' = [ev EXCEPT !.op = "called"]
  /\ UNCHANGED uiVars

\* lines 27-54: validateN8nConnection from its await to its return
ValidateReturn(ending) ==
  /\ ev.op = "called" /\ ev.fn = "validate"
  /\ LET outcome == validateN8nConnection(ev.config, ending) IN
       /\ pending' = Settled(pending, 1, outcome)
       /\ ev' = [op |-> "returned", fn |-> "validate", config |-> ev.config,
                 request |-> pending[1].request, ending |-> ending, outcome |-> outcome,
                 console |-> ValidateConsole(ev.config, ending)]
  /\ UNCHANGED uiVars

\* lines 57-90: saveWorkflowToN8n up to its await
SubmitCall ==
  /\ ev.op = "probe" /\ ev.fn = "submit"
  /\ pending' = <<Call("submit", "probe", ev.config,
                       SubmitRequest(ev.config, ev.workflow, ev.now))>>
  /\ ev' = [ev EXCEPT !.op = "called"]
  /\ UNCHANGED uiVars

\* lines 92-102: saveWorkflowToN8n from its await to its return, and what its
\* caller handleSaveToN8n then records (geminiService.ts lines 178-190)
SubmitReturn(ending) ==
  /\ ev.op = "called" /\ ev.fn = "submit"
  /\ LET outcome == saveWorkflowToN8n(ending) IN
       /\ pending' = Settled(pending, 1, outcome)
       /\ ev' = [op |-> "returned", fn |-> "submit", config |-> ev.config,
                 workflow |-> ev.workflow, now |-> ev.now,
                 request |-> pending[1].request, ending |-> ending, outcome |-> outcome,
                 saveStatus |-> SaveStatusAfter(outcome, Null),
                 console |-> SubmitConsole(ev.config, ending)]
  /\ UNCHANGED uiVars

\* geminiService.ts lines 72-101: sendMessageToGemini up to its await, called
\* as App.handleSendMessage calls it for the first message of a conversation
AssistantCall ==
  /\ ev.op = "probe" /\ ev.fn = "assistant"
  /\ pending' = <<Call("chat", "probe", Null,
                       ChatRequest(<<UserMessage(<<"crie um webhook">>)>>,
                                   <<"crie um webhook">>))>>
  /\ ev' = [ev EXCEPT !.op = "called"]
  /\ UNCHANGED uiVars

\* lines 102-134: sendMessageToGemini from its await to its return
AssistantReturn(ending) ==
  /\ ev.op = "called" /\ ev.fn = "assistant"
  /\ hasKey <=> ending /= NoUpstreamCall
  /\ LET outcome == sendMessageToGemini(hasKey, ending) IN
       /\ pending' = Settled(pending, 1, outcome)
       /\ ev' = [op |-> "returned", fn |-> "assistant", request |-> pending[1].request,
                 ending |-> ending, outcome |-> outcome]
  /\ UNCHANGED uiVars

ClientNext ==
  \/ ValidateCall
  \/ \E ending \in ValidateEndings : ValidateReturn(ending)
  \/ SubmitCall
  \/ \E ending \in SubmitEndings : SubmitReturn(ending)
  \/ AssistantCall
  \/ \E ending \in AssistantEndings \cup {NoUpstreamCall} : AssistantReturn(ending)

ClientSpec == ClientInit /\ [][ClientNext]_vars

\* ------------------------------------------------------------------ claims
Returned(fn) == ev.op = "returned" /\ ev.fn = fn
GotResponse == Returned("validate") /\ ev.ending.t = "response"
GotRejection == Returned("validate") /\ ev.ending.t = "rejection"

\* The kind of a validation result, read off the text the function returns.
Kind(result) ==
  IF Get(result, "success") = Bool(TRUE) THEN "Success"
  ELSE LET text == Get(result, "error").v IN
       CASE text = InvalidKeyText -> "InvalidCredentials"
         [] text = NotJsonText -> "NotATargetAPI"
         [] text = CorsText -> "NetworkUnreachable"
         [] text /= <<>> /\ text[1] = ServerErrorPrefix -> "ServerError"
         [] OTHER -> "Unexpected"

OutcomeKind == IF ev.outcome.state = "fulfilled" THEN Kind(ev.outcome.value) ELSE "Rejected"

SuccessStatuses == {200, 201}
JsonContentTypes == {JsonType, JsonCharsetType}

\* C1: validateConnection never throws past its boundary: however its request
\* ends, the returned promise resolves to an object {success, error?}.
C1_NeverRejects ==
  Returned("validate") =>
    /\ ev.outcome.state = "fulfilled"
    /\ Get(ev.outcome.value, "success").t = "boolean"

ValidationSucceeded(outcome) ==
  outcome.state = "fulfilled" /\ Get(outcome.value, "success") = Bool(TRUE)

\* C2: after a validation whose outcome is a failure, the in-memory config, the
\* persisted record and the authenticated flag are unchanged and the form that
\* asked shows the connection error.
C2_AcceptOnlyOnSuccess ==
  [][ (ev'.op = "ValidationSettle" /\ ~ValidationSucceeded(ev'.outcome)) =>
        /\ n8nConfig' = n8nConfig
        /\ storage' = storage
        /\ isAuthenticated' = isAuthenticated
        /\ (ev'.origin = "login" /\ ev'.live => login'.error /= Str(<<>>))
        /\ (ev'.origin = "settings" /\ ev'.live => settings'.error /= Null) ]_vars

\* C3: a response with status 401 or 403 yields InvalidCredentials, whatever
\* its content-type.
C3_Unauthorized ==
  (GotResponse /\ ev.ending.status \in {401, 403}) => OutcomeKind = "InvalidCredentials"

C3_Witness ==
  /\ GotResponse /\ ev.ending.status = 403 /\ ev.ending.contentType = HtmlType
  /\ OutcomeKind = "InvalidCredentials"

\* C4: a response with a success status and a content-type that is not JSON
\* (or none) yields NotATargetAPI, never success.
C4_NotJson ==
  (GotResponse /\ ev.ending.status \in SuccessStatuses
     /\ ev.ending.contentType \notin JsonContentTypes) => OutcomeKind = "NotATargetAPI"

C4_Witness ==
  /\ GotResponse /\ ev.ending.status = 200 /\ ev.ending.contentType = Null
  /\ OutcomeKind = "NotATargetAPI"

\* C5: a response with a success status and a JSON content-type yields success,
\* and success is returned for no other ending.
C5_SuccessExactly ==
  Returned("validate") =>
    (OutcomeKind = "Success" <=>
       /\ ev.ending.t = "response"
       /\ ev.ending.status \in SuccessStatuses
       /\ ev.ending.contentType \in JsonContentTypes)

C5_Witness ==
  /\ GotResponse /\ ev.ending.status = 200 /\ ev.ending.contentType = JsonCharsetType
  /\ OutcomeKind = "Success"

\* C6: a response with a non-success status other than 401 and 403 yields
\* ServerError, with the status code and the status text in the message.
C6_ServerError ==
  (GotResponse /\ ev.ending.status \notin SuccessStatuses \cup {401, 403}) =>
    /\ OutcomeKind = "ServerError"
    /\ Includes(Get(ev.outcome.value, "error").v, ToString(ev.ending.status))
    /\ Includes(Get(ev.outcome.value, "error").v, ev.ending.statusText)

C6_Witness ==
  /\ GotResponse /\ ev.ending.status = 404 /\ OutcomeKind = "ServerError"
  /\ Includes(Get(ev.outcome.value, "error").v, "Not Found")

\* C7: a request that fails with the generic message 'Failed to fetch' yields
\* NetworkUnreachable, with the text that hints at a cross-origin block.
C7_FailedToFetch ==
  (GotRejection /\ ev.ending.thrown = FailedToFetch) =>
    /\ OutcomeKind = "NetworkUnreachable"
    /\ Get(ev.outcome.value, "error") = Str(CorsText)

C7_Witness ==
  /\ GotRejection /\ ev.ending.thrown = FailedToFetch
  /\ OutcomeKind = "NetworkUnreachable"

\* C8 as stated: every failed request that carries an error message, whatever
\* the message, yields NetworkUnreachable.
C8_AllNetworkUnreachable ==
  (GotRejection /\ ev.ending.thrown.t = "Error") => OutcomeKind = "NetworkUnreachable"

MatchesNetworkText(message) ==
  message = <<"Failed to fetch">> \/ Includes(message, "NetworkError")

\* C8 as amended: a failed request yields NetworkUnreachable exactly when its
\* message is 'Failed to fetch' or contains 'NetworkError'; any other message
\* yields the failure 'Erro inesperado: <message>'; and no failed request
\* yields success or one of the kinds of a received response.
C8_NetworkOrUnexpected ==
  GotRejection =>
    /\ OutcomeKind \in {"NetworkUnreachable", "Unexpected", "Rejected"}
    /\ ev.ending.thrown.t = "Error" =>
         IF MatchesNetworkText(ev.ending.thrown.message)
           THEN OutcomeKind = "NetworkUnreachable"
           ELSE /\ OutcomeKind = "Unexpected"
                /\ Get(ev.outcome.value, "error")
                     = Str(<<UnexpectedPrefix>> \o ev.ending.thrown.message)

C8_Witness ==
  /\ GotRejection /\ ev.ending.thrown = Err(<<"Load failed">>)
  /\ OutcomeKind = "Unexpected"

SettleOps == {"ValidationSettle", "SaveSettle", "AssistantSettle"}
CallOps == {"LoginSubmit", "SettingsSubmit", "handleSaveToN8n", "SendMessage"}

\* The call and the request method a handler is to make.
CallOf(op) ==
  CASE op = "handleSaveToN8n" -> [op |-> "submit", methods |-> {"POST"}]
    [] op = "SendMessage" -> [op |-> "chat", methods |-> {IF hasKey THEN "CHAT" ELSE "NONE"}]
    [] OTHER -> [op |-> "validate", methods |-> {"GET"}]

\* C9: no retries.  A handler that passes its guard makes exactly one call, which
\* carries exactly one request (GET for a validation, POST for a submission);
\* a call that settles, with a failure or not, is gone and leaves no new call;
\* no other step makes a call.
C9_NoRetries ==
  [][ /\ ev'.op \in SettleOps => Len(pending') = Len(pending) - 1
      /\ (ev'.op \in CallOps /\ ev'.issued) =>
           /\ Len(pending') = Len(pending) + 1
           /\ SubSeq(pending', 1, Len(pending)) = pending
           /\ pending'[Len(pending')].op = CallOf(ev'.op).op
           /\ pending'[Len(pending')].request.method \in CallOf(ev'.op).methods
      /\ (ev'.op \notin SettleOps /\ (ev'.op \in CallOps => ~ev'.issued)) =>
           Len(pending') <= Len(pending) ]_vars

C9_Witness ==
  /\ ev.op = "ValidationSettle" /\ ~ValidationSucceeded(ev.outcome)
  /\ pending = <<>>
  /\ nCalls = 1

SubmitProbe == ev.op \in {"called", "returned"} /\ ev.fn = "submit"

Installs(outcome) ==
  outcome.state = "fulfilled" /\ Truthy(Get(outcome.value, "workflow"))

\* C11: the client does not change a document's nodes or connections.  A turn
\* that carries a workflow leaves exactly the parsed document as the current
\* one; no later action short of a replacement, a logout or a reload changes
\* it; and a submission sends the document's nodes and connections.
C11_DocumentNotMutated ==
  [][ /\ (ev'.op = "AssistantSettle" /\ Installs(ev'.outcome)) =>
           currentWorkflow' = Get(ev'.outcome.value, "workflow")
      /\ (ev'.op = "AssistantSettle" /\ ~Installs(ev'.outcome)) =>
           currentWorkflow' = currentWorkflow
      /\ ev'.op \notin {"AssistantSettle", "handleLogout", "handleReset"} =>
           currentWorkflow' = currentWorkflow
      /\ (ev'.op = "handleSaveToN8n" /\ ev'.issued) =>
           LET payload == pending'[Len(pending')].request.body IN
           /\ Get(payload, "nodes") = Get(currentWorkflow, "nodes")
           /\ Get(payload, "connections") = Get(currentWorkflow, "connections") ]_vars

SubmitFailed ==
  Returned("submit") /\ (ev.ending.t = "rejection" \/ ~ResponseOk(ev.ending))

IsFailedSave(status) == status /= Null /\ ~status.success

\* C12 as stated: a non-success status rejects with the message field of the
\* parsed body, or with the status text when the body cannot be parsed; a
\* transport failure rejects with the transport error; the handler records a
\* failed save status carrying that message.
C12_BodyMessageOrStatusText ==
  SubmitFailed =>
    /\ ev.outcome.state = "rejected"
    /\ ev.ending.t = "rejection" => ev.outcome.reason = ev.ending.thrown
    /\ ev.ending.t = "response" =>
         /\ ev.outcome.reason.t = "Error"
         /\ Str(ev.outcome.reason.message) =
              IF ev.ending.body = Unparseable THEN Str(Text(ev.ending.statusText))
              ELSE Get(ev.ending.body, "message")
    /\ ev.saveStatus = Null \/ ~ev.saveStatus.success
    /\ ev.outcome.reason.t = "Error" =>
         ev.saveStatus = FailedStatus(Str(ev.outcome.reason.message))

StatusFallback(r) == <<"Erro ", ToString(r.status)>>

\* C12 as amended: a non-success status always rejects, with one Error whose
\* message is the body's message field when that is a non-empty string, the
\* status text when the body cannot be parsed and the status text is not empty,
\* and 'Erro <status>' when the body is an object without such a message or
\* when neither a body nor a status text is there (a body that parses to null
\* rejects with the TypeError of reading its message); a transport failure
\* rejects with the thrown value itself; the handler never records a success,
\* and for a rejection with an Error it records the failed status with the
\* Error's message.
C12_RejectsWithMessage ==
  SubmitFailed =>
    /\ ev.outcome.state = "rejected"
    /\ ev.ending.t = "rejection" => ev.outcome.reason = ev.ending.thrown
    /\ ev.ending.t = "response" =>
         ev.outcome.reason =
           IF ev.ending.body = Unparseable
             THEN IF ev.ending.statusText /= "" THEN Err(<<ev.ending.statusText>>)
                  ELSE Err(StatusFallback(ev.ending))
           ELSE IF ev.ending.body = Null THEN TypeErrorValue
           ELSE IF Truthy(Get(ev.ending.body, "message"))
             THEN Err(Get(ev.ending.body, "message").v)
           ELSE Err(StatusFallback(ev.ending))
    /\ ev.saveStatus = Null \/ ~ev.saveStatus.success
    /\ ev.outcome.reason.t = "Error" =>
         ev.saveStatus = FailedStatus(Str(ev.outcome.reason.message))

C12_Witness ==
  /\ SubmitFailed /\ ev.ending.t = "response" /\ ev.ending.status = 404
  /\ ev.ending.body = Obj(EmptyFields)
  /\ ev.outcome = Rejected(Err(<<"Erro ", "404">>))
  /\ IsFailedSave(ev.saveStatus)

ReplyWith(text) == [t |-> "reply", text |-> Str(text)]
GotReply == Returned("assistant") /\ hasKey /\ ev.ending.t = "reply" /\ Truthy(ev.ending.text)

\* C13 as stated: for every JSON text t and every fence form, bare or with a
\* language tag, the result for the fenced reply is the result for t itself.
C13_AnyFence ==
  GotReply =>
    \A t \in JsonTexts :
      ev.ending.text.v \in Fenced(t) => ev.outcome = sendMessageToGemini(TRUE, ReplyWith(<<t>>))

\* the fence forms with no tag or with the tag json
JsonFenced(t) ==
  { <<Fence, "\n", t, "\n", Fence>>,
    <<Fence, t, Fence>>,
    <<Fence, "json", "\n", t, "\n", Fence>>,
    <<" ", Fence, "json", t, Fence, "\n">> }

\* C13 as amended: for every JSON text t, a reply that wraps t in a bare fence
\* or in a fence tagged json, with or without newlines and surrounding
\* whitespace, gives the result that t itself gives.
C13_BareOrJsonFence ==
  GotReply =>
    \A t \in JsonTexts :
      ev.ending.text.v \in JsonFenced(t) =>
        ev.outcome = sendMessageToGemini(TRUE, ReplyWith(<<t>>))

C13_Witness ==
  /\ GotReply
  /\ ev.ending.text.v = <<" ", Fence, "json", "{reply:plain}", Fence, "\n">>
  /\ ev.outcome.state = "fulfilled"
  /\ Get(ev.outcome.value, "workflow") = DocPlain

\* The outer JSON of a reply, and whether its workflowJson string fails to parse.
OuterOf(ending) == JsonParse(cleanJsonString(ending.text.v))
BrokenWorkflowJson(ending) ==
  /\ ending.t = "reply" /\ Truthy(ending.text)
  /\ OuterOf(ending).t = "parsed" /\ OuterOf(ending).v /= Null
  /\ Truthy(Get(OuterOf(ending).v, "workflowJson"))
  /\ JsonParse(Get(OuterOf(ending).v, "workflowJson").v).t = "throws"

\* C14: a reply whose outer JSON is valid and whose workflowJson does not parse
\* resolves to a result with the reply's explanation and no workflow; the
\* chat appends that explanation as the assistant's message and the current
\* workflow stays as it is.
C14_BrokenWorkflowJson ==
  [][ (ev'.op = "AssistantSettle" /\ BrokenWorkflowJson(ev'.ending)) =>
        /\ ev'.outcome.state = "fulfilled"
        /\ Get(ev'.outcome.value, "explanation") = Get(OuterOf(ev'.ending).v, "explanation")
        /\ Get(ev'.outcome.value, "workflow") = Null
        /\ messages' = Append(messages,
                              ModelMessage(Get(OuterOf(ev'.ending).v, "explanation")))
        /\ currentWorkflow' = currentWorkflow ]_vars

C14_Witness ==
  /\ ev.op = "AssistantSettle" /\ BrokenWorkflowJson(ev.ending)
  /\ Truthy(currentWorkflow)
  /\ Len(messages) = 4
  /\ messages[4] = ModelMessage(Str(ExplanationText))

\* The message of the error that ends a turn early, if one does.
FaultOf(ending) ==
  IF ~hasKey THEN Str(<<"API Key not found in environment variables.">>)
  ELSE IF ending.t = "rejection"
    THEN IF ending.thrown.t = "Error" THEN Str(ending.thrown.message)
         ELSE IF ending.thrown = NoMessageValue THEN Undefined
         ELSE Null
  ELSE IF ~Truthy(ending.text) THEN Str(<<"No response from Gemini">>)
  ELSE IF OuterOf(ending).t = "throws" THEN Str(OuterOf(ending).thrown.message)
  ELSE Null

C16_NoEmptyAssistantMessage ==
  \A i \in 1..Len(messages) :
    messages[i].role = "model" =>
      messages[i].content.t = "string" /\ messages[i].content.v /= <<>>

\* role and text of each message, as sendMessageToGemini maps a history
HistoryOf(history) ==
  [j \in 1..Len(history) |-> [role |-> history[j].role, text |-> history[j].content]]

\* C17: the request of a turn carries the messages of all earlier turns, in
\* order, as its history and the new user message as its message, so the new
\* message is in the request once.
C17_HistoryPlusNewMessage ==
  [][ (ev'.op = "SendMessage" /\ ev'.issued /\ hasKey) =>
        LET request == pending'[Len(pending')].request IN
        /\ request.history = HistoryOf(messages)
        /\ request.message = messages'[Len(messages')].content ]_vars

Count(calls, Test(_)) == Cardinality({i \in 1..Len(calls) : Test(calls[i])})
IsChat(call) == call.op = "chat"
IsValidationOrSubmission(call) == call.op \in {"validate", "submit"}

\* C18 as stated: at most one assistant request is outstanding, and at most
\* one validation or submission.
C18_OneOfEach ==
  /\ Count(pending, IsChat) <= 1
  /\ Count(pending, IsValidationOrSubmission) <= 1

LiveFromLogin(call) == call.origin = "login" /\ call.live
LiveFromSettings(call) == call.origin = "settings" /\ call.live
LiveFromPreview(call) == call.origin = "preview" /\ call.live

\* C18 as amended: at most one assistant request is outstanding; each mounted
\* form has at most one request of its own outstanding (the login screen one
\* validation, the settings dialog one validation, the preview one
\* submission).
C18_OnePerForm ==
  /\ Count(pending, IsChat) <= 1
  /\ Count(pending, LiveFromLogin) <= 1
  /\ Count(pending, LiveFromSettings) <= 1
  /\ Count(pending, LiveFromPreview) <= 1

C18_Witness ==
  /\ Count(pending, LiveFromSettings) = 1
  /\ Count(pending, LiveFromPreview) = 1

Alternates(history) ==
  \A i \in 1..Len(history) :
    history[i].role = IF i % 2 = 1 THEN "user" ELSE "model"

IsPrefix(a, b) == Len(a) <= Len(b) /\ SubSeq(b, 1, Len(a)) = a

\* C19: a request that settles appends exactly one assistant message, the
\* result's explanation or the fixed communication-error text; the transcript
\* alternates user, assistant, starting with a user message, in every state;
\* and short of a logout or a reload it is only appended to.
C19_TranscriptConsistent ==
  [][ /\ ev'.op = "AssistantSettle" =>
           /\ Len(messages') = Len(messages) + 1
           /\ IsPrefix(messages, messages')
           /\ messages'[Len(messages')] =
                IF ev'.outcome.state = "fulfilled"
                  THEN ModelMessage(Get(ev'.outcome.value, "explanation"))
                  ELSE ModelMessage(Str(CommErrorText))
      /\ ev'.op \notin {"handleLogout", "handleReset"} => IsPrefix(messages, messages')
      /\ Alternates(messages') ]_vars

\* the document as the preview's render leaves it
Shown(workflow) == RenderPreview(workflow, "visual").workflow

ListOrEmpty(v) == IF v.t = "array" THEN v ELSE Arr(<<>>)

\* C20: a turn whose result carries a workflow makes the current workflow, the
\* credentials and the tips that turn's (a list the turn lacks becomes empty);
\* a turn without a workflow leaves the three as they are; and no other step
\* but a reload changes the two lists.
C20_ReplacedWholesale ==
  [][ /\ (ev'.op = "AssistantSettle" /\ Installs(ev'.outcome)) =>
           LET turn == ev'.outcome.value IN
           /\ currentWorkflow' \in {Get(turn, "workflow"), Shown(Get(turn, "workflow"))}
           /\ workflowCredentials' = ListOrEmpty(Get(turn, "requiredCredentials"))
           /\ workflowTips' = ListOrEmpty(Get(turn, "tips"))
      /\ (ev'.op = "AssistantSettle" /\ ~Installs(ev'.outcome)) =>
           /\ currentWorkflow' = currentWorkflow
           /\ workflowCredentials' = workflowCredentials
           /\ workflowTips' = workflowTips
      /\ ev'.op \notin {"AssistantSettle", "handleReset"} =>
           /\ workflowCredentials' = workflowCredentials
           /\ workflowTips' = workflowTips ]_vars

C20_Witness ==
  /\ ev.op = "AssistantSettle" /\ Installs(ev.outcome)
  /\ Get(ev.outcome.value, "requiredCredentials") = Undefined
  /\ workflowCredentials = Arr(<<>>) /\ workflowTips = Arr(<<>>)
  /\ currentWorkflow = DocDangling
  /\ Len(messages) = 4
  /\ messages[2] = ModelMessage(Str(ExplanationText))
  /\ preview.saveStatus /= Null

\* The node names and the ids of a document, and the names its edges refer to
\* (the source names, which are the keys of connections, and the targets).
NodesOf(doc) == ListOrEmpty(Get(doc, "nodes")).v

EdgesOf(doc) ==
  LET conns == Get(doc, "connections") IN
  IF conns.t = "object" THEN conns.f ELSE EmptyFields

WellFormed(doc) ==
  LET nodes == NodesOf(doc)
      edges == EdgesOf(doc)
      names == { nodes[i].name : i \in DOMAIN nodes }
  IN /\ \A k \in DOMAIN edges :
          /\ k \in names
          /\ \A j \in DOMAIN edges[k].v : edges[k].v[j] \in names
     /\ \A i, j \in DOMAIN nodes : nodes[i].id = nodes[j].id => i = j

\* C21: the current workflow, and the document in the payload of every
\* submission that has been sent, has no edge that refers to a node name
\* missing from its nodes, and no two nodes with the same id.
C21_DocumentInvariants ==
  /\ Truthy(currentWorkflow) => WellFormed(currentWorkflow)
  /\ \A i \in DOMAIN pending :
       pending[i].op = "submit" => WellFormed(pending[i].request.body)

\* The record persisted under n8n_config is the whole of the configuration in
\* memory.
Persisted(config) == storage = Str(Stringify(config))

\* C22, part 1: whenever the user is authenticated the configuration in
\* memory is not null, has a non-empty baseUrl and apiKey, and equals the
\* persisted record.
C22_AuthenticatedConfig ==
  isAuthenticated =>
    /\ Truthy(n8nConfig)
    /\ n8nConfig.baseUrl /= <<>> /\ n8nConfig.apiKey /= <<>>
    /\ Persisted(n8nConfig)

\* C22, part 2: every step that writes the persisted record writes
\* the whole record of the configuration then in memory.
C22_WholeRecord ==
  [][(storage' /= storage /\ Truthy(storage')) => Persisted(n8nConfig)']_vars

\* C22, part 3: a confirmed logout leaves no persisted record, a null
\* configuration and an unauthenticated session.
C22_Logout ==
  [][(ev'.op = "handleLogout" /\ ev' /= ev) =>
       (storage' = Null /\ n8nConfig' = Null /\ ~isAuthenticated')]_vars

\* C22, part 4: once the page has loaded, while no session is open (after a
\* logout, before a login) the configuration in memory is null.
C22_LoggedOut ==
  (booted /\ ~isAuthenticated) => (n8nConfig = Null)

EndsWithSlash(url) == url /= <<>> /\ url[Len(url)] = "/"

\* The endpoint has a slash right before its path /api/v1/workflows.
DoubleSlashBeforePath(endpoint) ==
  Len(endpoint) > 1 /\ endpoint[Len(endpoint) - 1] = "/"

\* C23: the baseUrl of the config passed to a validation, and of the config in
\* memory (the one that is stored), does not end with a slash, formatting it
\* again changes nothing, and no endpoint built from it has two slashes before
\* api/v1/workflows.
C23_BaseUrlNormalized ==
  /\ \A i \in DOMAIN pending :
       /\ pending[i].op = "validate" =>
            /\ ~EndsWithSlash(pending[i].config.baseUrl)
            /\ FormatUrl(pending[i].config.baseUrl) = pending[i].config.baseUrl
       /\ pending[i].op \in {"validate", "submit"} =>
            ~DoubleSlashBeforePath(pending[i].request.url)
  /\ Truthy(n8nConfig) => ~EndsWithSlash(n8nConfig.baseUrl)

\* The text has the key as a run of consecutive chunks.
Infix(key, text) ==
  \E i \in 1..(Len(text) - Len(key) + 1) : SubSeq(text, i, i + Len(key) - 1) = key

\* The value shows the (non-empty) key: an error or a string whose text has
\* it, or a config that holds it.
KeyIn(value, key) ==
  /\ key /= <<>>
  /\ CASE value.t = "Error" -> Infix(key, value.message)
       [] value.t = "string" -> Infix(key, value.v)
       [] value.t = "object" /\ "apiKey" \in DOMAIN value -> value.apiKey = key
       [] OTHER -> FALSE

\* The request carries the key in its header and nowhere else, and goes to
\* the configured baseUrl.
KeyOnlyInHeader(request, config) ==
  /\ request.apiKey = config.apiKey
  /\ IsPrefix(StripSlash(config.baseUrl), request.url)
  /\ ~Infix(config.apiKey, request.url) \/ Infix(config.apiKey, config.baseUrl)
  /\ request.body.t = "object" =>
       \A k \in DOMAIN request.body.f : ~KeyIn(request.body.f[k], config.apiKey)

C25_LogoutDestroysSession ==
  (booted /\ ~isAuthenticated) => (messages = <<>> /\ currentWorkflow = Null)

\* The shape the preview needs: an object whose nodes is a list.
Previewable(workflow) == workflow.t = "object" /\ Get(workflow, "nodes").t = "array"

\* C26: the current workflow is null or a document the preview can render, and
\* the application never is in the state of the error boundary, whose reset
\* removes the persisted config.
C26_OnlyPreviewableInstalled ==
  /\ Truthy(currentWorkflow) => Previewable(currentWorkflow)
  /\ ~hasError

\* C27, per flag: the flag is set exactly while a call of its control is
\* outstanding.
C27_IsLoading == isLoading <=> (Count(pending, IsChat) > 0)

C27_LoginValidating == login.isValidating <=> (Count(pending, LiveFromLogin) > 0)

C27_SettingsValidating ==
  settings.isValidating <=> (Count(pending, LiveFromSettings) > 0)

C27_IsSaving == preview.isSaving <=> (Count(pending, LiveFromPreview) > 0)

\* C27: each in-flight flag (isLoading, isSaving, isValidating of the login
\* screen and of the settings dialog) is true exactly while its call is
\* outstanding, so it is cleared when the call settles, by resolving or by
\* rejecting.
C27_FlagsFollowCalls ==
  /\ C27_IsLoading
  /\ C27_LoginValidating
  /\ C27_SettingsValidating
  /\ C27_IsSaving
====
